---- MODULE Spec2Model ----
(***************************************************************************)
(* Model of net/l3mdev/l3mdev.c: the l3mdev handler registry               *)
(* (l3mdev_table_lookup_register / _unregister and                         *)
(* l3mdev_ifindex_lookup_by_table_id), with the spinlock l3mdev_lock and   *)
(* the RCU read side / grace period the code relies on.                    *)
(*                                                                         *)
(* Writer threads call register and unregister, reader threads call the    *)
(* lookup.  Every shared-memory access of the code is one step; the test   *)
(* a writer makes right after spin_lock is taken with the lock, since no   *)
(* other thread can write a slot while the lock is held.                    *)
(***************************************************************************)
EXTENDS Integers, FiniteSets

(* ------------------------------------------------------------------ *)
(* Constants of the program                                            *)
(* ------------------------------------------------------------------ *)

\* enum l3mdev_type: L3MDEV_TYPE_UNSPEC is 0, valid types are 1..L3MDEV_TYPE_MAX
L3MDEV_TYPE_UNSPEC == 0

L3MDEV_TYPE_MAX == 1

EINVAL == 22

EBUSY == 16

NULL == 0

\* Threads calling register/unregister, and threads calling the lookup.
Writers == {"w1", "w2"}

Readers == {"r1", "r2"}

\* Callbacks a domain implementation may pass (non-NULL function pointers).
Fns == {1, 2}

Nets == {1}

TableIds == {1, 2}

\* l3type arguments tried: both sides of each bound of l3mdev_check_type.
Types == L3MDEV_TYPE_UNSPEC .. (L3MDEV_TYPE_MAX + 1)

\* Indices of l3mdev_handlers[L3MDEV_TYPE_MAX + 1]
Slots == 0 .. L3MDEV_TYPE_MAX

NoOne == "none"

\* History variables.  reg[t] tells the last successful operation on type t:
\* "free" (none yet, or an unregister that has returned), "cur" (a register),
\* or the name of the writer whose unregister removed the registration and has
\* not returned yet.  rd[r].from is the value of reg the pointer held by lookup
\* r belongs to ("none" when it holds no callback): "cur" while its
\* registration stands, the remover's name once it is removed.
VARIABLES
    l3type,     \* l3mdev_handlers[i].l3type
    fn,         \* l3mdev_handlers[i].dev_ifindex_lookup_by_table_id
    lock,       \* holder of l3mdev_lock, or NoOne
    wr,         \* per writer thread: position and locals of the call in progress
    rd,         \* per reader thread: position and locals of the call in progress
    reg,        \* history, see above
    dev,        \* the devices of the namespace: flags, upper master, l3mdev_ops
    fl,         \* the struct flowi handed to l3mdev_update_flow / l3mdev_fib_rule_match
    hist,       \* history of the calls made on fl, and the struct fib_lookup_arg
    call        \* the resolver call in progress or returned: function, argument, result

vars == <<l3type, fn, lock, wr, rd, reg, dev, fl, hist, call>>

\* the handler registry
rvars == <<l3type, fn, lock, wr, rd, reg>>

\* the devices and the flow
dvars == <<dev, fl, hist, call>>

(* ------------------------------------------------------------------ *)
(* Pure functions                                                      *)
(* ------------------------------------------------------------------ *)

l3mdev_check_type_lt(t) ==
    IF t < L3MDEV_TYPE_UNSPEC \/ t > L3MDEV_TYPE_MAX THEN -EINVAL ELSE 0

l3mdev_check_type(t) ==
    IF t <= L3MDEV_TYPE_UNSPEC \/ t > L3MDEV_TYPE_MAX THEN -EINVAL ELSE 0

\* The callback of a domain implementation, called as lookup(net, table_id):
\* callback 1 maps every table to a device, callback 2 knows table 1 only and
\* answers -ENODEV (-19) for any other.
Callback(f, net, id) ==
    IF f = 1 THEN 40 * net + id
    ELSE IF id = 1 THEN 7 ELSE -19

\* register's test under the lock (lines 45-46)
SlotBusy_And(t) == l3type[t] # L3MDEV_TYPE_UNSPEC /\ fn[t] # NULL

SlotBusy(t) == l3type[t] # L3MDEV_TYPE_UNSPEC \/ fn[t] # NULL

\* unregister's test under the lock (lines 77-78)
SlotMismatch_TypeOnly(t, f) == l3type[t] # t

SlotMismatch(t, f) == l3type[t] # t \/ fn[t] # f

\* value unregister stores into hdlr->l3type (line 87)
UnregisteredType_Keep(t) == l3type[t]

UnregisteredType(t) == L3MDEV_TYPE_UNSPEC

(* ------------------------------------------------------------------ *)
(* Devices and flows                                                   *)
(* ------------------------------------------------------------------ *)

\* number of devices registered in the namespace
NumDevs == 2

\* number of l3mdev_update_flow calls made on one flow
MaxUpdates == 2

\* device d is the struct net_device with dev->ifindex = d
Devs == 1 .. NumDevs

\* interface indexes a caller may pass: 0 (unset), the index of a device, or
\* an index no device of the namespace has
Handles == 0 .. (NumDevs + 1)

FLOWI_FLAG_SKIP_NH_OIF == "FLOWI_FLAG_SKIP_NH_OIF"

\* values of fl->flowi_flags as the call starts, as sets of flag bits
FlowFlags == {{}, {"FLOWI_FLAG_ANYSRC"}}

Flows == [flowi_oif : Handles, flowi_iif : Handles, flowi_flags : FlowFlags]

\* arg->table as the caller of l3mdev_fib_rule_match left it
ArgTable == 5

\* a device: IFF_L3MDEV_MASTER, IFF_L3MDEV_SLAVE, its master upper device (NULL
\* when it has none), whether dev->l3mdev_ops is set (not NULL), and whether
\* the l3mdev_fib_table slot of that table is set.
DevRecords ==
    [l3_master : BOOLEAN, l3_slave : BOOLEAN, upper : Devs \cup {NULL},
     l3mdev_ops : BOOLEAN, fib_table : BOOLEAN]

\* The two flags exclude each other, the upper device of an L3 master is never
\* read (lines 142, 174, 194 test the master flag first), and an L3 master
\* carries an operation table.  A device that is no L3 master may have a NULL
\* l3mdev_ops, whatever devices it is the upper device of.
Topologies ==
    {t \in [Devs -> DevRecords] :
        \A d \in Devs :
            /\ t[d].l3_master => (~t[d].l3_slave /\ t[d].upper = NULL /\ t[d].l3mdev_ops)
            /\ t[d].fib_table => t[d].l3mdev_ops}

PlainDev == [l3_master |-> FALSE, l3_slave |-> FALSE, upper |-> NULL,
             l3mdev_ops |-> FALSE, fib_table |-> FALSE]

NoFlow == [flowi_oif |-> 0, flowi_iif |-> 0, flowi_flags |-> {}]

\* history of a flow f: the flow as first handed in, the flow before the last
\* l3mdev_update_flow, the number of l3mdev_update_flow calls, and the last
\* l3mdev_fib_rule_match: the flow it was given, after how many updates, its
\* return value and arg->table after it
HistOf(f) ==
    [orig |-> f, prev |-> f, nupd |-> 0,
     rm |-> [done |-> FALSE, fl |-> f, nupd |-> 0, rc |-> 0, table |-> ArgTable]]

\* a resolver call: function, argument, result, and for the walk of
\* l3mdev_master_upper_ifindex_by_index_rcu the device it is at and the parity
\* of the number of loop iterations made
NoCall == [fn |-> "none", arg |-> 0, cur |-> NULL, pc |-> "idle", ret |-> 0,
           iter |-> 0]

\* line 173: the device of the namespace with that index, or NULL
dev_get_by_index_rcu(net, ifindex) == IF ifindex \in Devs THEN ifindex ELSE NULL

netif_is_l3_master(d) == dev[d].l3_master

netif_is_l3_slave(d) == dev[d].l3_slave

netdev_master_upper_dev_get_rcu(d) == dev[d].upper

netdev_master_upper_dev_get(d) == dev[d].upper

\* dev->l3mdev_ops->l3mdev_fib_table is not NULL, for a device whose
\* l3mdev_ops is set (lines 281, 289: an L3 master)
has_l3mdev_fib_table(d) == dev[d].fib_table

\* dev->l3mdev_ops->l3mdev_fib_table(dev): each master has a table of its own
l3mdev_fib_table(d) == 10 * d + 1

\* an L3 master answers no index
l3mdev_master_ifindex_rcu_NoMaster(d) ==
    IF d = NULL THEN 0
    ELSE IF netif_is_l3_master(d) THEN 0
    ELSE IF netif_is_l3_slave(d)
         THEN IF netdev_master_upper_dev_get_rcu(d) # NULL
              THEN netdev_master_upper_dev_get_rcu(d) ELSE 0
         ELSE 0

\* an L3 slave answers its own index
l3mdev_master_ifindex_rcu_Self(d) ==
    IF d = NULL THEN 0
    ELSE IF netif_is_l3_master(d) THEN d
    ELSE IF netif_is_l3_slave(d)
         THEN IF netdev_master_upper_dev_get_rcu(d) # NULL THEN d ELSE 0
         ELSE 0

\* lines 135-160
l3mdev_master_ifindex_rcu(d) ==
    IF d = NULL THEN 0
    ELSE IF netif_is_l3_master(d) THEN d
    ELSE IF netif_is_l3_slave(d)
         THEN IF netdev_master_upper_dev_get_rcu(d) # NULL
              THEN netdev_master_upper_dev_get_rcu(d) ELSE 0
         ELSE 0

\* the call did not return: the kernel faulted
Fault == -1

\* what a read through a NULL dev->l3mdev_ops can produce: a fault, a NULL
\* slot (result 0), or a slot that is called and answers some table
UndefinedRead == {Fault, 0} \cup {l3mdev_fib_table(m) : m \in Devs}

\* lines 195-196, 206-207: the outcomes of
\* d->l3mdev_ops->l3mdev_fib_table ? d->l3mdev_ops->l3mdev_fib_table(d) : 0
\* (the pointer d->l3mdev_ops itself is not tested)
FibTableThroughOps(d) ==
    IF ~dev[d].l3mdev_ops THEN UndefinedRead
    ELSE IF has_l3mdev_fib_table(d) THEN {l3mdev_fib_table(d)} ELSE {0}

\* lines 187-211: the outcomes of the call
l3mdev_fib_table_rcu(d) ==
    IF d = NULL THEN {0}
    ELSE IF netif_is_l3_master(d) THEN FibTableThroughOps(d)
    ELSE IF netif_is_l3_slave(d)
         THEN LET master == netdev_master_upper_dev_get_rcu(d)
              IN  IF master # NULL THEN FibTableThroughOps(master) ELSE {0}
         ELSE {0}

\* lines 214-231: the outcomes of the call
l3mdev_fib_table_by_index(net, ifindex) ==
    IF ifindex = 0 THEN {0}
    ELSE LET d == dev_get_by_index_rcu(net, ifindex)
         IN  IF d # NULL THEN l3mdev_fib_table_rcu(d) ELSE {0}

\* lines 280-281, 288-289: the test of either interface
RuleMatches(d) == d # NULL /\ netif_is_l3_master(d) /\ has_l3mdev_fib_table(d)

\* the input interface tested first
l3mdev_fib_rule_match_IifFirst(net, f, table) ==
    LET o == dev_get_by_index_rcu(net, f.flowi_oif)
        i == dev_get_by_index_rcu(net, f.flowi_iif)
    IN  IF RuleMatches(i) THEN [rc |-> 1, table |-> l3mdev_fib_table(i)]
        ELSE IF RuleMatches(o) THEN [rc |-> 1, table |-> l3mdev_fib_table(o)]
        ELSE [rc |-> 0, table |-> table]

\* lines 271-299: the return value and arg->table, which held table at the call
l3mdev_fib_rule_match(net, f, table) ==
    LET o == dev_get_by_index_rcu(net, f.flowi_oif)
        i == dev_get_by_index_rcu(net, f.flowi_iif)
    IN  IF RuleMatches(o) THEN [rc |-> 1, table |-> l3mdev_fib_table(o)]
        ELSE IF RuleMatches(i) THEN [rc |-> 1, table |-> l3mdev_fib_table(i)]
        ELSE [rc |-> 0, table |-> table]

\* lines 309-311, 321-323: the master index of the device with that index
MasterOfHandle(net, ifindex) ==
    IF ifindex = 0 THEN 0
    ELSE l3mdev_master_ifindex_rcu(dev_get_by_index_rcu(net, ifindex))

\* flowi_flags ^= FLOWI_FLAG_SKIP_NH_OIF
l3mdev_update_flow_Toggle(net, f) ==
    LET Flip(flags) == IF FLOWI_FLAG_SKIP_NH_OIF \in flags
                       THEN flags \ {FLOWI_FLAG_SKIP_NH_OIF}
                       ELSE flags \cup {FLOWI_FLAG_SKIP_NH_OIF}
    IN  IF MasterOfHandle(net, f.flowi_oif) # 0
        THEN [f EXCEPT !.flowi_oif = MasterOfHandle(net, f.flowi_oif),
                       !.flowi_flags = Flip(@)]
        ELSE IF MasterOfHandle(net, f.flowi_iif) # 0
        THEN [f EXCEPT !.flowi_iif = MasterOfHandle(net, f.flowi_iif),
                       !.flowi_flags = Flip(@)]
        ELSE f

\* no goto out after the output interface
l3mdev_update_flow_Both(net, f) ==
    LET g == IF MasterOfHandle(net, f.flowi_oif) # 0
             THEN [f EXCEPT !.flowi_oif = MasterOfHandle(net, f.flowi_oif),
                            !.flowi_flags = @ \cup {FLOWI_FLAG_SKIP_NH_OIF}]
             ELSE f
    IN  IF MasterOfHandle(net, g.flowi_iif) # 0
        THEN [g EXCEPT !.flowi_iif = MasterOfHandle(net, g.flowi_iif),
                       !.flowi_flags = @ \cup {FLOWI_FLAG_SKIP_NH_OIF}]
        ELSE g

\* lines 301-333: the flow after the call
l3mdev_update_flow(net, f) ==
    IF MasterOfHandle(net, f.flowi_oif) # 0
    THEN [f EXCEPT !.flowi_oif = MasterOfHandle(net, f.flowi_oif),
                   !.flowi_flags = @ \cup {FLOWI_FLAG_SKIP_NH_OIF}]
    ELSE IF MasterOfHandle(net, f.flowi_iif) # 0
    THEN [f EXCEPT !.flowi_iif = MasterOfHandle(net, f.flowi_iif),
                   !.flowi_flags = @ \cup {FLOWI_FLAG_SKIP_NH_OIF}]
    ELSE f

(* ------------------------------------------------------------------ *)
(* Thread records                                                      *)
(* ------------------------------------------------------------------ *)

WIdle == [pc |-> "idle", op |-> "none", l3type |-> 0, fn |-> NULL, res |-> 0,
          wait |-> {}, rival |-> "none", rfn |-> NULL]

RIdle == [pc |-> "idle", l3type |-> 0, net |-> 0, table_id |-> 0, lookup |-> NULL,
          ifindex |-> 0, ret |-> 0, ncalls |-> 0, from |-> "none", expect |-> NULL]

\* rcu_read_lock() ... rcu_read_unlock()
InReadSide(r) == rd[r].pc \in {"deref", "invoke", "rcu_unlock"}

\* the registry as the subsystem starts
RegistryInit ==
    /\ l3type = [s \in Slots |-> L3MDEV_TYPE_UNSPEC]
    /\ fn = [s \in Slots |-> NULL]
    /\ lock = NoOne
    /\ wr = [w \in Writers |-> WIdle]
    /\ rd = [r \in Readers |-> RIdle]
    /\ reg = [s \in Slots |-> "free"]

\* the registry, in a namespace whose devices belong to no L3 domain
Init ==
    /\ RegistryInit
    /\ dev = [d \in Devs |-> PlainDev]
    /\ fl = NoFlow
    /\ hist = HistOf(NoFlow)
    /\ call = NoCall

(* ------------------------------------------------------------------ *)
(* l3mdev_table_lookup_register                                        *)
(* ------------------------------------------------------------------ *)

\* lines 37-41: check the type, compute hdlr; an invalid type returns at once
\* (fn is not read on that path and is not kept)
register_entry(w, t, f) ==
    /\ wr[w].pc = "idle"
    /\ wr' = [wr EXCEPT ![w] =
                IF l3mdev_check_type(t) # 0
                THEN [WIdle EXCEPT !.pc = "ret", !.op = "reg", !.l3type = t,
                                   !.res = l3mdev_check_type(t)]
                ELSE [WIdle EXCEPT !.pc = "lock", !.op = "reg", !.l3type = t, !.fn = f]]
    /\ UNCHANGED <<l3type, fn, lock, rd, reg>>
    /\ UNCHANGED dvars

\* u has called register for the type of w's register and waits for the lock
RacesWith(u, w) ==
    wr[u].op = "reg" /\ wr[u].pc = "lock" /\ wr[u].l3type = wr[w].l3type

\* the occupancy test without waiting for l3mdev_lock
register_lock_NoSpin(w) ==
    /\ wr[w].pc = "lock" /\ wr[w].op = "reg"
    /\ lock' = w
    /\ IF SlotBusy(wr[w].l3type)
       THEN /\ wr' = [wr EXCEPT ![w].pc = "unlock", ![w].res = -EBUSY]
            /\ UNCHANGED reg
       ELSE /\ wr' = [u \in Writers |->
                        IF u = w THEN [wr[w] EXCEPT !.pc = "set_type"]
                        ELSE IF RacesWith(u, w)
                             THEN [wr[u] EXCEPT !.rival = w, !.rfn = wr[w].fn]
                             ELSE wr[u]]
            /\ reg' = [reg EXCEPT ![wr[w].l3type] = "cur"]
    /\ UNCHANGED <<l3type, fn, rd>>
    /\ UNCHANGED dvars

\* lines 43-49: spin_lock, then the occupancy test
\* (history: the registers of the same type that were waiting for the lock
\* when w won the empty slot record w and its callback as rival, rfn)
register_lock(w) ==
    /\ wr[w].pc = "lock" /\ wr[w].op = "reg"
    /\ lock = NoOne
    /\ lock' = w
    /\ IF SlotBusy(wr[w].l3type)
       THEN /\ wr' = [wr EXCEPT ![w].pc = "unlock", ![w].res = -EBUSY]
            /\ UNCHANGED reg
       ELSE /\ wr' = [u \in Writers |->
                        IF u = w THEN [wr[w] EXCEPT !.pc = "set_type"]
                        ELSE IF RacesWith(u, w)
                             THEN [wr[u] EXCEPT !.rival = w, !.rfn = wr[w].fn]
                             ELSE wr[u]]
            /\ reg' = [reg EXCEPT ![wr[w].l3type] = "cur"]
    /\ UNCHANGED <<l3type, fn, rd>>
    /\ UNCHANGED dvars

\* the type stored into every handler slot
register_set_type_AllSlots(w) ==
    /\ wr[w].pc = "set_type"
    /\ l3type' = [s \in Slots |-> wr[w].l3type]
    /\ wr' = [wr EXCEPT ![w].pc = "set_fn"]
    /\ UNCHANGED <<fn, lock, rd, reg>>
    /\ UNCHANGED dvars

\* line 51: hdlr->l3type = l3type
register_set_type(w) ==
    /\ wr[w].pc = "set_type"
    /\ l3type' = [l3type EXCEPT ![wr[w].l3type] = wr[w].l3type]
    /\ wr' = [wr EXCEPT ![w].pc = "set_fn"]
    /\ UNCHANGED <<fn, lock, rd, reg>>
    /\ UNCHANGED dvars

\* lines 52-54: rcu_assign_pointer(hdlr->dev_ifindex_lookup_by_table_id, fn); res = 0
register_set_fn(w) ==
    /\ wr[w].pc = "set_fn"
    /\ fn' = [fn EXCEPT ![wr[w].l3type] = wr[w].fn]
    /\ wr' = [wr EXCEPT ![w].pc = "unlock", ![w].res = 0]
    /\ UNCHANGED <<l3type, lock, rd, reg>>
    /\ UNCHANGED dvars

\* lines 56-59: spin_unlock; return res
register_unlock(w) ==
    /\ wr[w].pc = "unlock" /\ wr[w].op = "reg"
    /\ lock' = NoOne
    /\ wr' = [wr EXCEPT ![w].pc = "ret"]
    /\ UNCHANGED <<l3type, fn, rd, reg>>
    /\ UNCHANGED dvars

(* ------------------------------------------------------------------ *)
(* l3mdev_table_lookup_unregister                                      *)
(* ------------------------------------------------------------------ *)

\* lines 69-73
unregister_entry(w, t, f) ==
    /\ wr[w].pc = "idle"
    /\ wr' = [wr EXCEPT ![w] =
                IF l3mdev_check_type(t) # 0
                THEN [WIdle EXCEPT !.pc = "ret", !.op = "unreg", !.l3type = t,
                                   !.res = l3mdev_check_type(t)]
                ELSE [WIdle EXCEPT !.pc = "lock", !.op = "unreg", !.l3type = t, !.fn = f]]
    /\ UNCHANGED <<l3type, fn, lock, rd, reg>>
    /\ UNCHANGED dvars

\* lines 75-78: spin_lock, then the ownership test
\* (history: the registration a waiting register lost to is gone)
unregister_lock(w) ==
    /\ wr[w].pc = "lock" /\ wr[w].op = "unreg"
    /\ lock = NoOne
    /\ lock' = w
    /\ IF SlotMismatch(wr[w].l3type, wr[w].fn)
       THEN /\ wr' = [wr EXCEPT ![w].pc = "unlock_fail", ![w].res = -EINVAL]
            /\ UNCHANGED <<rd, reg>>
       ELSE /\ wr' = [u \in Writers |->
                        IF u = w THEN [wr[w] EXCEPT !.pc = "clr_type"]
                        ELSE IF wr[u].op = "reg" /\ wr[u].l3type = wr[w].l3type
                             THEN [wr[u] EXCEPT !.rival = "none", !.rfn = NULL]
                             ELSE wr[u]]
            /\ reg' = [reg EXCEPT ![wr[w].l3type] = w]
            /\ rd' = [r \in Readers |->
                        IF rd[r].l3type = wr[w].l3type /\ rd[r].from = "cur"
                        THEN [rd[r] EXCEPT !.from = w] ELSE rd[r]]
    /\ UNCHANGED <<l3type, fn>>
    /\ UNCHANGED dvars

\* lines 79-80: spin_unlock; return -EINVAL
unregister_unlock_fail(w) ==
    /\ wr[w].pc = "unlock_fail"
    /\ lock' = NoOne
    /\ wr' = [wr EXCEPT ![w].pc = "ret"]
    /\ UNCHANGED <<l3type, fn, rd, reg>>
    /\ UNCHANGED dvars

\* line 87: hdlr->l3type = L3MDEV_TYPE_UNSPEC
unregister_clr_type(w) ==
    /\ wr[w].pc = "clr_type"
    /\ l3type' = [l3type EXCEPT ![wr[w].l3type] = UnregisteredType(wr[w].l3type)]
    /\ wr' = [wr EXCEPT ![w].pc = "clr_fn"]
    /\ UNCHANGED <<fn, lock, rd, reg>>
    /\ UNCHANGED dvars

\* line 88: rcu_assign_pointer(hdlr->dev_ifindex_lookup_by_table_id, NULL)
\* (history: a lookup of this type that has not read the pointer yet is no
\* longer promised the callback the slot held when it started)
unregister_clr_fn(w) ==
    /\ wr[w].pc = "clr_fn"
    /\ fn' = [fn EXCEPT ![wr[w].l3type] = NULL]
    /\ wr' = [wr EXCEPT ![w].pc = "unlock"]
    /\ rd' = [r \in Readers |->
                IF rd[r].l3type = wr[w].l3type /\ rd[r].pc \in {"rcu_lock", "deref"}
                THEN [rd[r] EXCEPT !.expect = NULL]
                ELSE rd[r]]
    /\ UNCHANGED <<l3type, lock, reg>>
    /\ UNCHANGED dvars

\* the lock kept across the waits
unregister_unlock_Hold(w) ==
    /\ wr[w].pc = "unlock" /\ wr[w].op = "unreg"
    /\ wr' = [wr EXCEPT ![w].pc = "sync"]
    /\ UNCHANGED <<l3type, fn, lock, rd, reg>>
    /\ UNCHANGED dvars

\* line 90: spin_unlock
unregister_unlock(w) ==
    /\ wr[w].pc = "unlock" /\ wr[w].op = "unreg"
    /\ lock' = NoOne
    /\ wr' = [wr EXCEPT ![w].pc = "sync"]
    /\ UNCHANGED <<l3type, fn, rd, reg>>
    /\ UNCHANGED dvars

\* line 92, the call: the grace period covers the read-side critical sections
\* that are active now
synchronize_rcu_call(w) ==
    /\ wr[w].pc = "sync"
    /\ wr' = [wr EXCEPT ![w].pc = "sync_wait",
                        ![w].wait = {r \in Readers : InReadSide(r)}]
    /\ UNCHANGED <<l3type, fn, lock, rd, reg>>
    /\ UNCHANGED dvars

GracePeriodElapsed_NoWait(w) == TRUE

GracePeriodElapsed_AllReaders(w) == \A r \in Readers : ~InReadSide(r)

\* synchronize_rcu returns once every critical section it covers has ended
GracePeriodElapsed(w) == wr[w].wait = {}

\* line 92, the return
synchronize_rcu_return(w) ==
    /\ wr[w].pc = "sync_wait"
    /\ GracePeriodElapsed(w)
    /\ wr' = [wr EXCEPT ![w].pc = "barrier", ![w].wait = {}]
    /\ UNCHANGED <<l3type, fn, lock, rd, reg>>
    /\ UNCHANGED dvars

\* lines 95-97: rcu_barrier (this file queues no RCU callback); return 0
rcu_barrier(w) ==
    /\ wr[w].pc = "barrier"
    /\ wr' = [wr EXCEPT ![w].pc = "ret", ![w].res = 0]
    /\ UNCHANGED <<l3type, fn, lock, rd, reg>>
    /\ UNCHANGED dvars

\* the caller takes the result; the thread may call again
writer_return(w) ==
    /\ wr[w].pc = "ret"
    /\ wr' = [wr EXCEPT ![w] = WIdle]
    /\ reg' = [t \in Slots |-> IF reg[t] = w THEN "free" ELSE reg[t]]
    /\ UNCHANGED <<l3type, fn, lock, rd>>
    /\ UNCHANGED dvars

(* ------------------------------------------------------------------ *)
(* l3mdev_ifindex_lookup_by_table_id                                   *)
(* ------------------------------------------------------------------ *)

\* int ifindex = 0
LookupInit_Zero == EINVAL - EINVAL

\* line 106: int ifindex = -EINVAL
LookupInit == -EINVAL

\* lines 106-113: ifindex = -EINVAL; check the type; an invalid type returns res
\* (history: expect is the callback the slot holds as the lookup starts)
lookup_entry(r, t, n, id) ==
    /\ rd[r].pc = "idle"
    /\ rd' = [rd EXCEPT ![r] =
                IF l3mdev_check_type(t) # 0
                THEN [RIdle EXCEPT !.pc = "ret", !.l3type = t,
                                   !.ifindex = LookupInit, !.ret = l3mdev_check_type(t)]
                ELSE [RIdle EXCEPT !.pc = "rcu_lock", !.l3type = t, !.net = n,
                                   !.table_id = id, !.ifindex = LookupInit,
                                   !.expect = fn[t]]]
    /\ UNCHANGED <<l3type, fn, lock, wr, reg>>
    /\ UNCHANGED dvars

\* what rcu_read_lock waits for: nothing
ReadSideOpen_RwLock(r) == lock = NoOne

ReadSideOpen(r) == TRUE

\* line 115
rcu_read_lock(r) ==
    /\ rd[r].pc = "rcu_lock"
    /\ ReadSideOpen(r)
    /\ rd' = [rd EXCEPT ![r].pc = "deref"]
    /\ UNCHANGED <<l3type, fn, lock, wr, reg>>
    /\ UNCHANGED dvars

\* lines 117-119: lookup = rcu_dereference(hdlr->dev_ifindex_lookup_by_table_id)
lookup_deref(r) ==
    /\ rd[r].pc = "deref"
    /\ rd' = [rd EXCEPT ![r].lookup = fn[rd[r].l3type],
                        ![r].from = IF fn[rd[r].l3type] # NULL THEN reg[rd[r].l3type]
                                    ELSE "none",
                        ![r].pc = IF fn[rd[r].l3type] # NULL THEN "invoke" ELSE "rcu_unlock"]
    /\ UNCHANGED <<l3type, fn, lock, wr, reg>>
    /\ UNCHANGED dvars

LookupResult_Unset(r) == rd[r].ifindex

\* line 121: the value assigned to ifindex
LookupResult(r) == Callback(rd[r].lookup, rd[r].net, rd[r].table_id)

\* line 121: ifindex = lookup(net, table_id); the callback runs and returns
lookup_invoke(r) ==
    /\ rd[r].pc = "invoke"
    /\ rd' = [rd EXCEPT ![r].ifindex = LookupResult(r),
                        ![r].ncalls = rd[r].ncalls + 1,
                        ![r].from = "none",
                        ![r].pc = "rcu_unlock"]
    /\ UNCHANGED <<l3type, fn, lock, wr, reg>>
    /\ UNCHANGED dvars

\* lines 124-126: rcu_read_unlock; return ifindex
rcu_read_unlock(r) ==
    /\ rd[r].pc = "rcu_unlock"
    /\ rd' = [rd EXCEPT ![r].pc = "ret", ![r].ret = rd[r].ifindex]
    /\ wr' = [w \in Writers |-> [wr[w] EXCEPT !.wait = wr[w].wait \ {r}]]
    /\ UNCHANGED <<l3type, fn, lock, reg>>
    /\ UNCHANGED dvars

reader_return(r) ==
    /\ rd[r].pc = "ret"
    /\ rd' = [rd EXCEPT ![r] = RIdle]
    /\ UNCHANGED <<l3type, fn, lock, wr, reg>>
    /\ UNCHANGED dvars

(* ------------------------------------------------------------------ *)
(* Specification                                                       *)
(* ------------------------------------------------------------------ *)

WriterProgress(w) ==
    \/ register_lock(w)
    \/ register_set_type(w)
    \/ register_set_fn(w)
    \/ register_unlock(w)
    \/ unregister_lock(w)
    \/ unregister_unlock_fail(w)
    \/ unregister_clr_type(w)
    \/ unregister_clr_fn(w)
    \/ unregister_unlock(w)
    \/ synchronize_rcu_call(w)
    \/ synchronize_rcu_return(w)
    \/ rcu_barrier(w)

ReaderProgress(r) ==
    \/ rcu_read_lock(r)
    \/ lookup_deref(r)
    \/ lookup_invoke(r)
    \/ rcu_read_unlock(r)

\* The calls and steps of the writer threads Ws and the reader threads Rs, with
\* callbacks drawn from Fs and table ids from Ids.
NextOf(Ws, Rs, Fs, Ids) ==
    \/ \E w \in Ws, t \in Types, f \in Fs : register_entry(w, t, f)
    \/ \E w \in Ws, t \in Types, f \in Fs : unregister_entry(w, t, f)
    \/ \E w \in Ws : WriterProgress(w)
    \/ \E w \in Ws : writer_return(w)
    \/ \E r \in Rs, t \in Types, n \in Nets, id \in Ids : lookup_entry(r, t, n, id)
    \/ \E r \in Rs : ReaderProgress(r)
    \/ \E r \in Rs : reader_return(r)

\* Two writers racing, one lookup.
Next == NextOf(Writers, {"r1"}, Fns \cup {NULL}, {1})

Spec == Init /\ [][Next]_vars

\* One writer, two concurrent lookups.
NextR == NextOf({"w1"}, Readers, Fns \cup {NULL}, TableIds)

SpecR == Init /\ [][NextR]_vars

\* Scheduling: a thread inside a call keeps running (a spinlock holder is not
\* preempted and releases the lock, read-side critical sections do not block).
\* Nothing obliges a thread to start a call.
Fairness ==
    /\ \A w \in Writers : WF_vars(WriterProgress(w))
    /\ \A r \in Readers : WF_vars(ReaderProgress(r))

\* One writer with one callback, two concurrent lookups, fair scheduling.
NextLive == NextOf({"w1"}, Readers, {1}, {1})

LiveSpec == Init /\ [][NextLive]_vars /\ Fairness

(* ------------------------------------------------------------------ *)
(* Calls on a flow                                                     *)
(* ------------------------------------------------------------------ *)

\* l3mdev_update_flow(net, fl), lines 301-333
update_flow_call ==
    /\ hist.nupd < MaxUpdates
    /\ fl' = l3mdev_update_flow(1, fl)
    /\ hist' = [hist EXCEPT !.nupd = @ + 1, !.prev = fl]
    /\ UNCHANGED <<dev, call>>
    /\ UNCHANGED rvars

\* l3mdev_fib_rule_match(net, fl, arg), lines 271-299, with arg->table = ArgTable
fib_rule_match_call ==
    /\ LET r == l3mdev_fib_rule_match(1, fl, ArgTable)
       IN  hist' = [hist EXCEPT !.rm = [done |-> TRUE, fl |-> fl, nupd |-> hist.nupd,
                                        rc |-> r.rc, table |-> r.table]]
    /\ UNCHANGED <<dev, fl, call>>
    /\ UNCHANGED rvars

\* every topology, every flow
FlowInit ==
    /\ RegistryInit
    /\ dev \in Topologies
    /\ fl \in Flows
    /\ hist = HistOf(fl)
    /\ call = NoCall

FlowNext ==
    \/ update_flow_call
    \/ fib_rule_match_call

SpecFlow == FlowInit /\ [][FlowNext]_vars

(* ------------------------------------------------------------------ *)
(* Resolver calls                                                      *)
(* ------------------------------------------------------------------ *)

\* l3mdev_master_ifindex_rcu(dev), lines 135-160
master_ifindex_call(d) ==
    /\ call.pc \in {"idle", "ret"}
    /\ call' = [fn |-> "l3mdev_master_ifindex_rcu", arg |-> d, cur |-> NULL,
                pc |-> "ret", ret |-> l3mdev_master_ifindex_rcu(d), iter |-> 0]
    /\ UNCHANGED <<dev, fl, hist>>
    /\ UNCHANGED rvars

\* l3mdev_fib_table_by_index(net, ifindex), lines 214-231: the call returns a
\* table id, or faults and never returns
fib_table_by_index_call(i) ==
    /\ call.pc \in {"idle", "ret"}
    /\ \E v \in l3mdev_fib_table_by_index(1, i) :
          call' = [fn |-> "l3mdev_fib_table_by_index", arg |-> i, cur |-> NULL,
                   pc |-> IF v = Fault THEN "oops" ELSE "ret",
                   ret |-> IF v = Fault THEN 0 ELSE v, iter |-> 0]
    /\ UNCHANGED <<dev, fl, hist>>
    /\ UNCHANGED rvars

\* l3mdev_master_upper_ifindex_by_index_rcu(net, ifindex), line 173
master_upper_entry(i) ==
    /\ call.pc \in {"idle", "ret"}
    /\ call' = [fn |-> "l3mdev_master_upper_ifindex_by_index_rcu", arg |-> i,
                cur |-> dev_get_by_index_rcu(1, i), pc |-> "loop", ret |-> 0,
                iter |-> 0]
    /\ UNCHANGED <<dev, fl, hist>>
    /\ UNCHANGED rvars

\* line 174: the loop condition
WalkContinues == call.cur # NULL /\ ~netif_is_l3_master(call.cur)

\* lines 174-175: one iteration of the loop
master_upper_loop ==
    /\ call.pc = "loop"
    /\ WalkContinues
    /\ call' = [call EXCEPT !.cur = netdev_master_upper_dev_get(call.cur),
                             !.iter = 1 - @]
    /\ UNCHANGED <<dev, fl, hist>>
    /\ UNCHANGED rvars

\* line 177: the loop has ended
master_upper_return ==
    /\ call.pc = "loop"
    /\ ~WalkContinues
    /\ call' = [call EXCEPT !.pc = "ret",
                             !.ret = IF call.cur # NULL THEN call.cur ELSE 0]
    /\ UNCHANGED <<dev, fl, hist>>
    /\ UNCHANGED rvars

\* every topology, a caller that makes one resolver call after another
DevInit ==
    /\ RegistryInit
    /\ dev \in Topologies
    /\ fl = NoFlow
    /\ hist = HistOf(NoFlow)
    /\ call = NoCall

DevNext ==
    \/ \E d \in Devs \cup {NULL} : master_ifindex_call(d)
    \/ \E i \in Handles : fib_table_by_index_call(i)
    \/ \E i \in Handles : master_upper_entry(i)
    \/ master_upper_loop
    \/ master_upper_return

SpecDev == DevInit /\ [][DevNext]_vars

\* a call that has started keeps running
LiveDev ==
    DevInit /\ [][DevNext]_vars /\ WF_vars(master_upper_loop) /\ WF_vars(master_upper_return)

TypeOK ==
    /\ l3type \in [Slots -> Slots]
    /\ fn \in [Slots -> Fns \cup {NULL}]
    /\ lock \in Writers \cup {NoOne}
    /\ reg \in [Slots -> {"free", "cur"} \cup Writers]
    /\ \A w \in Writers : wr[w].wait \subseteq Readers

(* ------------------------------------------------------------------ *)
(* Vocabulary of the properties                                        *)
(* ------------------------------------------------------------------ *)

InvalidTag(t) == t <= L3MDEV_TYPE_UNSPEC \/ t > L3MDEV_TYPE_MAX

ValidTags == {t \in Types : ~InvalidTag(t)}

\* thread w takes a step of its call
WStep(w) == wr'[w].pc # wr[w].pc

SlotsUnchanged == l3type' = l3type /\ fn' = fn

\* w is in a successful unregister that has cleared nothing yet or is before the
\* end of its grace period
Removing(w) ==
    /\ wr[w].op = "unreg"
    /\ wr[w].pc \in {"clr_type", "clr_fn", "unlock", "sync", "sync_wait"}

UnregisterReturned(w) == wr[w].op = "unreg" /\ wr[w].pc = "ret" /\ wr[w].res = 0

(* ------------------------------------------------------------------ *)
(* C1                                                                  *)
(* ------------------------------------------------------------------ *)

\* C1: once a successful unregister has returned, no lookup holds (is invoking)
\* the callback of the registration it removed: a lookup holds a removed
\* callback only while the unregister that removed it is still before the end
\* of its grace period, and a lookup never obtains a callback from a slot
\* whose registration is gone.
C1_NoCallbackAfterUnregister ==
    /\ \A w \in Writers : UnregisterReturned(w) => \A r \in Readers : rd[r].from # w
    /\ \A r \in Readers : \A w \in Writers :
          rd[r].from = w => Removing(w) /\ wr[w].l3type = rd[r].l3type
    /\ \A r \in Readers : rd[r].pc = "invoke" => rd[r].from \in {"cur"} \cup Writers

\* an unregister has returned while a later lookup of the same type, which read
\* the cleared slot, is still inside its read-side critical section
C1_Witness ==
    \E w \in Writers : \E r \in Readers :
        /\ UnregisterReturned(w)
        /\ rd[r].l3type = wr[w].l3type
        /\ rd[r].pc = "rcu_unlock" /\ rd[r].lookup = NULL

(* ------------------------------------------------------------------ *)
(* C2                                                                  *)
(* ------------------------------------------------------------------ *)

\* C2: a lookup that starts while the slot of its type holds callback cb, with no
\* unregister clearing the slot before the lookup reads it, invokes cb exactly
\* once and returns the value cb(net, table_id) returned.
C2_LookupInvokesRegistered ==
    \A r \in Readers :
        (rd[r].pc = "ret" /\ rd[r].expect # NULL) =>
            /\ rd[r].ncalls = 1
            /\ rd[r].lookup = rd[r].expect
            /\ rd[r].ret = Callback(rd[r].expect, rd[r].net, rd[r].table_id)

\* a lookup returned the (negative) value callback 2 gives for table 2
C2_Witness ==
    \E r \in Readers :
        /\ rd[r].pc = "ret" /\ rd[r].expect = 2 /\ rd[r].table_id = 2
        /\ rd[r].ret = -19 /\ rd[r].ncalls = 1

(* ------------------------------------------------------------------ *)
(* C3                                                                  *)
(* ------------------------------------------------------------------ *)

\* C3: a register that finds its slot occupied (type set or callback installed)
\* fails with -EBUSY, and from the test to its return it changes no slot.
C3_RegisterOccupied ==
    [][\A w \in Writers :
         /\ (/\ wr[w].op = "reg" /\ wr[w].pc = "lock" /\ WStep(w)
             /\ (l3type[wr[w].l3type] # L3MDEV_TYPE_UNSPEC \/ fn[wr[w].l3type] # NULL))
            => (wr'[w].pc = "unlock" /\ wr'[w].res = -EBUSY /\ SlotsUnchanged)
         /\ (wr[w].op = "reg" /\ wr[w].res = -EBUSY /\ WStep(w))
            => (SlotsUnchanged /\ wr'[w].pc \in {"ret", "idle"}
                /\ (wr'[w].pc = "ret" => wr'[w].res = -EBUSY))
      ]_vars

\* a register of callback 2 has returned -EBUSY and the slot still holds
\* callback 1, which a lookup is invoking
C3_Witness ==
    \E w \in Writers : \E r \in Readers :
        /\ wr[w].op = "reg" /\ wr[w].pc = "ret" /\ wr[w].res = -EBUSY /\ wr[w].fn = 2
        /\ fn[wr[w].l3type] = 1 /\ l3type[wr[w].l3type] = wr[w].l3type
        /\ rd[r].pc = "invoke" /\ rd[r].l3type = wr[w].l3type /\ rd[r].lookup = 1

(* ------------------------------------------------------------------ *)
(* C4                                                                  *)
(* ------------------------------------------------------------------ *)

\* C4: an unregister whose callback is not the one installed in the slot fails
\* with -EINVAL, changes no slot, and returns without a grace-period wait.
C4_UnregisterWrongCallback ==
    [][\A w \in Writers :
         /\ (/\ wr[w].op = "unreg" /\ wr[w].pc = "lock" /\ WStep(w)
             /\ fn[wr[w].l3type] # wr[w].fn)
            => (wr'[w].pc = "unlock_fail" /\ wr'[w].res = -EINVAL /\ SlotsUnchanged)
         /\ (wr[w].pc = "unlock_fail" /\ WStep(w))
            => (SlotsUnchanged /\ wr'[w].pc = "ret" /\ wr'[w].res = -EINVAL
                /\ wr'[w].wait = {})
      ]_vars

\* an unregister with callback 2 has returned -EINVAL, the slot still holds
\* callback 1 and a lookup is invoking it
C4_Witness ==
    \E w \in Writers : \E r \in Readers :
        /\ wr[w].op = "unreg" /\ wr[w].pc = "ret" /\ wr[w].res = -EINVAL /\ wr[w].fn = 2
        /\ fn[wr[w].l3type] = 1 /\ l3type[wr[w].l3type] = wr[w].l3type
        /\ rd[r].pc = "invoke" /\ rd[r].l3type = wr[w].l3type /\ rd[r].lookup = 1

(* ------------------------------------------------------------------ *)
(* C5                                                                  *)
(* ------------------------------------------------------------------ *)

\* C5: an unregister that finds its slot empty fails with -EINVAL and changes
\* nothing; a register succeeds (returns 0) exactly when the last successful
\* operation on its type, if any, was an unregister.
C5_RegisterAfterUnregister ==
    [][\A w \in Writers :
         /\ (/\ wr[w].op = "unreg" /\ wr[w].pc = "lock" /\ WStep(w)
             /\ l3type[wr[w].l3type] = L3MDEV_TYPE_UNSPEC /\ fn[wr[w].l3type] = NULL)
            => (wr'[w].pc = "unlock_fail" /\ wr'[w].res = -EINVAL
                /\ SlotsUnchanged /\ reg' = reg)
         /\ (wr[w].op = "reg" /\ wr[w].pc = "lock" /\ WStep(w))
            => IF reg[wr[w].l3type] # "cur"
               THEN wr'[w].pc = "set_type"
               ELSE wr'[w].pc = "unlock" /\ wr'[w].res = -EBUSY
         /\ (wr[w].op = "reg" /\ wr[w].pc \in {"set_type", "set_fn"} /\ WStep(w))
            => wr'[w].pc \in {"set_fn", "unlock"}
         /\ (wr[w].op = "reg" /\ wr[w].pc = "unlock" /\ WStep(w))
            => (wr'[w].pc = "ret" /\ wr'[w].res = wr[w].res
                /\ wr[w].res \in {0, -EBUSY}
                /\ (wr[w].res = 0 => fn[wr[w].l3type] = wr[w].fn
                                     /\ l3type[wr[w].l3type] = wr[w].l3type))
      ]_vars

\* a register has succeeded on a type whose unregister, by the other writer, is
\* still in progress
C5_Witness ==
    \E w \in Writers : \E u \in Writers :
        /\ wr[w].op = "reg" /\ wr[w].pc = "ret" /\ wr[w].res = 0
        /\ wr[u].op = "unreg" /\ wr[u].pc \in {"sync_wait", "barrier", "ret"}
        /\ wr[u].res = 0 /\ wr[u].l3type = wr[w].l3type

(* ------------------------------------------------------------------ *)
(* C6                                                                  *)
(* ------------------------------------------------------------------ *)

\* C6: register and unregister called with type 0 or a type above
\* L3MDEV_TYPE_MAX return -EINVAL at once: they never wait for or hold
\* l3mdev_lock and change no slot.
C6_InvalidTag ==
    /\ [](\A w \in Writers :
            (wr[w].pc # "idle" /\ InvalidTag(wr[w].l3type)) =>
                (wr[w].pc = "ret" /\ wr[w].res = -EINVAL /\ lock # w))
    /\ [][\A w \in Writers :
            (wr[w].pc = "idle" /\ WStep(w) /\ InvalidTag(wr'[w].l3type)) =>
                (lock' = lock /\ SlotsUnchanged)
         ]_vars

\* both kinds of call have returned -EINVAL, one for type 0 and one for a type
\* above the maximum, while a registration stands
C6_Witness ==
    \E w \in Writers : \E u \in Writers :
        /\ wr[w].op = "reg" /\ wr[w].pc = "ret" /\ wr[w].l3type = L3MDEV_TYPE_UNSPEC
        /\ wr[w].res = -EINVAL
        /\ wr[u].op = "unreg" /\ wr[u].pc = "ret" /\ wr[u].l3type = L3MDEV_TYPE_MAX + 1
        /\ wr[u].res = -EINVAL
        /\ \E t \in ValidTags : fn[t] # NULL

(* ------------------------------------------------------------------ *)
(* C7                                                                  *)
(* ------------------------------------------------------------------ *)

\* C7 as stated: a lookup whose type is invalid, or that read no callback from
\* its slot, invokes no callback and returns zero.
C7_ReturnsZero ==
    \A r \in Readers :
        (rd[r].pc = "ret" /\ (InvalidTag(rd[r].l3type) \/ rd[r].lookup = NULL)) =>
            (rd[r].ncalls = 0 /\ rd[r].ret = 0)

\* C7, amended: a lookup whose type is invalid, or that read no callback from
\* its slot, invokes no callback and returns -EINVAL.
C7_ReturnsEinval ==
    \A r \in Readers :
        (rd[r].pc = "ret" /\ (InvalidTag(rd[r].l3type) \/ rd[r].lookup = NULL)) =>
            (rd[r].ncalls = 0 /\ rd[r].ret = -EINVAL)

\* one lookup returned for an invalid type, another for a valid type whose slot
\* held no callback
C7_Witness ==
    \E r \in Readers : \E q \in Readers :
        /\ rd[r].pc = "ret" /\ InvalidTag(rd[r].l3type)
        /\ rd[q].pc = "ret" /\ ~InvalidTag(rd[q].l3type) /\ rd[q].lookup = NULL

(* ------------------------------------------------------------------ *)
(* C8                                                                  *)
(* ------------------------------------------------------------------ *)

\* C8: whenever no writer is inside the locked slot update, every slot of a valid
\* type holds a callback if and only if its type field equals its own index.
C8_SlotInvariant ==
    lock = NoOne =>
        \A t \in ValidTags : (fn[t] # NULL <=> l3type[t] = t)

(* ------------------------------------------------------------------ *)
(* C9                                                                  *)
(* ------------------------------------------------------------------ *)

\* C9: an unregister that has cleared its slot eventually returns 0, whatever
\* lookups start after the clear.
C9_UnregisterReturns ==
    \A w \in Writers :
        (wr[w].op = "unreg" /\ wr[w].pc = "unlock") ~> UnregisterReturned(w)

\* an unregister waits for a lookup that was in its critical section at the
\* clear while a lookup that started later is in its critical section too
C9_Witness ==
    \E w \in Writers : \E r \in Readers : \E q \in Readers :
        /\ wr[w].pc = "sync_wait" /\ wr[w].wait = {r}
        /\ q # r /\ InReadSide(q) /\ rd[q].l3type = wr[w].l3type

(* ------------------------------------------------------------------ *)
(* C10                                                                 *)
(* ------------------------------------------------------------------ *)

\* C10: in every state every lookup can take its next step (an idle thread can
\* start a lookup and enter the read side), whoever holds l3mdev_lock and
\* whatever unregister is waiting; no lookup ever holds the lock.
C10_LookupNeverBlocks ==
    /\ lock \notin Readers
    /\ \A r \in Readers :
        /\ rd[r].pc = "idle" => \A t \in Types : ENABLED lookup_entry(r, t, 1, 1)
        /\ rd[r].pc = "rcu_lock" => ENABLED rcu_read_lock(r)
        /\ rd[r].pc = "deref" => ENABLED lookup_deref(r)
        /\ rd[r].pc = "invoke" => ENABLED lookup_invoke(r)
        /\ rd[r].pc = "rcu_unlock" => ENABLED rcu_read_unlock(r)
        /\ rd[r].pc = "ret" => ENABLED reader_return(r)

\* a lookup is inside its read side, about to read the pointer, while one writer
\* holds the lock and the other, in the grace-period wait of an unregister,
\* waits for this lookup
C10_Witness ==
    \E r \in Readers : \E w \in Writers : \E u \in Writers :
        /\ rd[r].pc = "deref"
        /\ lock = w
        /\ wr[u].pc = "sync_wait" /\ r \in wr[u].wait

(* ------------------------------------------------------------------ *)
(* C17                                                                 *)
(* ------------------------------------------------------------------ *)

\* w is between spin_lock and spin_unlock
InLocked(w) ==
    wr[w].pc \in {"set_type", "set_fn", "unlock", "unlock_fail", "clr_type", "clr_fn"}

\* w's register has passed the occupancy test, or has stored and not failed
Won(w) ==
    /\ wr[w].op = "reg"
    /\ \/ wr[w].pc \in {"set_type", "set_fn"}
       \/ wr[w].pc \in {"unlock", "ret"} /\ wr[w].res = 0

\* C17: at most one register/unregister caller is between the acquire and the
\* release of l3mdev_lock, and it is the holder.  When registers of one type
\* race for an empty slot, the one that takes the lock first succeeds, and
\* every register that was waiting for the lock at that moment returns -EBUSY
\* and leaves the slot with the winner's type and callback (as long as no
\* unregister removes the winner's registration before it takes the lock).
C17_WritersExclusive ==
    /\ [](\A w \in Writers : InLocked(w) =>
            (lock = w /\ \A u \in Writers \ {w} : ~InLocked(u)))
    /\ [](\A u \in Writers : wr[u].rival # "none" =>
            /\ wr[u].op = "reg" /\ wr[u].pc \in {"lock", "unlock", "ret"}
            /\ ~Won(u)
            /\ wr[u].pc \in {"unlock", "ret"} =>
                  /\ wr[u].res = -EBUSY
                  /\ fn[wr[u].l3type] = wr[u].rfn
                  /\ l3type[wr[u].l3type] = wr[u].l3type)
    /\ [][\A w \in Writers :
            (/\ wr[w].op = "reg" /\ wr[w].pc = "lock" /\ WStep(w)
             /\ l3type[wr[w].l3type] = L3MDEV_TYPE_UNSPEC /\ fn[wr[w].l3type] = NULL)
            => (/\ wr'[w].pc = "set_type"
                /\ \A u \in Writers \ {w} :
                     RacesWith(u, w) => (wr'[u].rival = w /\ wr'[u].rfn = wr[w].fn))
         ]_vars

\* two registers of the same type with different callbacks raced, both have
\* returned, the winner with 0 and the other with -EBUSY, and the slot holds
\* the winner's callback
C17_Witness ==
    \E w \in Writers : \E u \in Writers :
        /\ wr[w].op = "reg" /\ wr[w].pc = "ret" /\ wr[w].res = 0
        /\ wr[u].op = "reg" /\ wr[u].pc = "ret" /\ wr[u].res = -EBUSY
        /\ wr[u].rival = w
        /\ wr[u].l3type = wr[w].l3type /\ wr[u].fn # wr[w].fn /\ wr[u].fn # NULL
        /\ fn[wr[w].l3type] = wr[w].fn /\ wr[w].fn # NULL

(* ------------------------------------------------------------------ *)
(* C18                                                                 *)
(* ------------------------------------------------------------------ *)

\* w's unregister is in synchronize_rcu or rcu_barrier
InWaits(w) == wr[w].op = "unreg" /\ wr[w].pc \in {"sync", "sync_wait", "barrier"}

\* C18: a successful unregister stores UNSPEC, then NULL, while it holds
\* l3mdev_lock, releases the lock with the slot cleared, then calls
\* synchronize_rcu, then rcu_barrier, then returns 0.  It never holds the lock
\* in either wait, and a caller that is inside register or unregister while
\* the first one waits can always take its next step.
C18_UnregisterOrder ==
    /\ [][\A w \in Writers : (wr[w].op = "unreg" /\ WStep(w)) =>
            /\ wr[w].pc = "clr_type" =>
                  /\ lock = w /\ lock' = w /\ wr'[w].pc = "clr_fn"
                  /\ l3type'[wr[w].l3type] = L3MDEV_TYPE_UNSPEC
            /\ wr[w].pc = "clr_fn" =>
                  /\ lock = w /\ lock' = w /\ wr'[w].pc = "unlock"
                  /\ fn'[wr[w].l3type] = NULL
            /\ wr[w].pc = "unlock" =>
                  /\ lock = w /\ lock' = NoOne /\ wr'[w].pc = "sync"
                  /\ l3type[wr[w].l3type] = L3MDEV_TYPE_UNSPEC
                  /\ fn[wr[w].l3type] = NULL
            /\ wr[w].pc = "sync" => wr'[w].pc = "sync_wait"
            /\ wr[w].pc = "sync_wait" => wr'[w].pc = "barrier"
            /\ wr[w].pc = "barrier" => (wr'[w].pc = "ret" /\ wr'[w].res = 0)
         ]_vars
    /\ [](\A w \in Writers : InWaits(w) =>
            /\ lock # w
            /\ \A u \in Writers \ {w} :
                 (wr[u].pc = "lock" \/ InLocked(u)) => ENABLED WriterProgress(u))

\* while one unregister waits for a lookup to leave its read side, a register
\* of the same type by the other caller has succeeded and returned
C18_Witness ==
    \E w \in Writers : \E u \in Writers :
        /\ wr[w].op = "unreg" /\ wr[w].pc = "sync_wait" /\ wr[w].wait # {}
        /\ wr[u].op = "reg" /\ wr[u].pc = "ret" /\ wr[u].res = 0
        /\ wr[u].l3type = wr[w].l3type
        /\ fn[wr[u].l3type] = wr[u].fn /\ wr[u].fn # NULL

(* ------------------------------------------------------------------ *)
(* C20                                                                 *)
(* ------------------------------------------------------------------ *)

\* the type argument of the call in which w takes a step
TagOf(w) == IF wr[w].pc = "idle" THEN wr'[w].l3type ELSE wr[w].l3type

\* C20: a step of a register or unregister call leaves the type and callback
\* of every slot other than the one indexed by the call's type argument
\* unchanged, whether the call succeeds or fails, and a step of a lookup
\* changes no slot.
C20_OtherSlotsUntouched ==
    [][/\ \A w \in Writers : WStep(w) =>
            \A s \in Slots \ {TagOf(w)} : l3type'[s] = l3type[s] /\ fn'[s] = fn[s]
       /\ (\E r \in Readers : rd'[r].pc # rd[r].pc) => SlotsUnchanged
      ]_vars

\* a register has succeeded, an unregister with another callback has failed, a
\* lookup has run the callback and returned; slot 0 is as it was initialised
C20_Witness ==
    \E w \in Writers : \E u \in Writers : \E r \in Readers :
        /\ wr[w].op = "reg" /\ wr[w].pc = "ret" /\ wr[w].res = 0
        /\ wr[u].op = "unreg" /\ wr[u].pc = "ret" /\ wr[u].res = -EINVAL
        /\ wr[u].l3type = wr[w].l3type
        /\ rd[r].pc = "ret" /\ rd[r].ncalls = 1 /\ rd[r].l3type = wr[w].l3type
        /\ fn[wr[w].l3type] = wr[w].fn /\ l3type[wr[w].l3type] = wr[w].l3type
        /\ \A s \in Slots \ {wr[w].l3type} :
             l3type[s] = L3MDEV_TYPE_UNSPEC /\ fn[s] = NULL

(* ------------------------------------------------------------------ *)
(* C14                                                                 *)
(* ------------------------------------------------------------------ *)

\* l3mdev_master_ifindex_rcu has returned for the argument d
MasterIfindexReturned(d) ==
    call.fn = "l3mdev_master_ifindex_rcu" /\ call.pc = "ret" /\ call.arg = d

\* C14: l3mdev_master_ifindex_rcu returns the device's own index for an L3
\* master, the index of its upper master for an L3 slave that has one, and 0
\* for a device that is neither, for an L3 slave without upper master, and for
\* no device.
C14_MasterIndex ==
    /\ MasterIfindexReturned(NULL) => call.ret = 0
    /\ \A d \in Devs : MasterIfindexReturned(d) =>
          /\ dev[d].l3_master => call.ret = d
          /\ (dev[d].l3_slave /\ dev[d].upper # NULL) => call.ret = dev[d].upper
          /\ (dev[d].l3_slave /\ dev[d].upper = NULL) => call.ret = 0
          /\ (~dev[d].l3_master /\ ~dev[d].l3_slave) => call.ret = 0

\* the call has returned, for an L3 slave, the index of the L3 master above it
C14_Witness ==
    \E d \in Devs : \E e \in Devs :
        /\ MasterIfindexReturned(d)
        /\ dev[d].l3_slave /\ dev[d].upper = e /\ e # d /\ dev[e].l3_master
        /\ call.ret = e

(* ------------------------------------------------------------------ *)
(* C12                                                                 *)
(* ------------------------------------------------------------------ *)

\* C12: every call of l3mdev_master_upper_ifindex_by_index_rcu returns,
\* whatever the index and whatever the upper-master relation of the devices,
\* a relation with a cycle or a device that is its own upper master included.
C12_WalkTerminates ==
    (call.fn = "l3mdev_master_upper_ifindex_by_index_rcu" /\ call.pc = "loop")
        ~> (call.fn = "l3mdev_master_upper_ifindex_by_index_rcu" /\ call.pc = "ret")

(* ------------------------------------------------------------------ *)
(* C16                                                                 *)
(* ------------------------------------------------------------------ *)

\* l3mdev_fib_table_by_index has been called with the index i
FibTableCalled(i) == call.fn = "l3mdev_fib_table_by_index" /\ call.arg = i

\* C16: l3mdev_fib_table_by_index returns 0 for index 0 and for an index no
\* device has; for a device it returns the result of the l3mdev_fib_table
\* accessor of the device itself when it is an L3 master, of its upper master
\* when it is an L3 slave, and 0 when that master is absent or has no accessor,
\* or when the device is neither master nor slave.
C16_FibTableOfHandle ==
    \A i \in Handles : FibTableCalled(i) =>
        /\ call.pc = "ret"
        /\ IF i = 0 \/ i \notin Devs THEN call.ret = 0
           ELSE /\ dev[i].l3_master =>
                     call.ret = IF dev[i].fib_table THEN l3mdev_fib_table(i) ELSE 0
                /\ dev[i].l3_slave =>
                     call.ret = IF dev[i].upper = NULL THEN 0
                                ELSE IF dev[dev[i].upper].fib_table
                                     THEN l3mdev_fib_table(dev[i].upper)
                                     ELSE 0
                /\ (~dev[i].l3_master /\ ~dev[i].l3_slave) => call.ret = 0

(* ------------------------------------------------------------------ *)
(* C11                                                                 *)
(* ------------------------------------------------------------------ *)

\* the upper master of every L3 slave is an L3 master
SlavesUnderMasters ==
    \A d \in Devs :
        (dev[d].l3_slave /\ dev[d].upper # NULL) => dev[dev[d].upper].l3_master

\* C11 as stated: for every flow and every topology, the second
\* l3mdev_update_flow leaves the flow as the first one left it.
C11_Idempotent ==
    hist.nupd >= 2 => fl = hist.prev

\* C11, amended: for every flow and every topology in which the upper master
\* of each L3 slave is an L3 master, the second l3mdev_update_flow leaves the
\* flow (both interfaces and the flags) as the first one left it.
C11_IdempotentUnderMasters ==
    (SlavesUnderMasters /\ hist.nupd >= 2) => fl = hist.prev

\* two calls have been made on a flow whose output interface was an L3 slave:
\* the first replaced it with the L3 master and set the flag, the second
\* changed nothing
C11_Witness ==
    /\ SlavesUnderMasters
    /\ hist.nupd = 2
    /\ hist.orig.flowi_oif \in Devs /\ dev[hist.orig.flowi_oif].l3_slave
    /\ fl.flowi_oif # hist.orig.flowi_oif
    /\ fl.flowi_oif = dev[hist.orig.flowi_oif].upper
    /\ FLOWI_FLAG_SKIP_NH_OIF \in fl.flowi_flags
    /\ fl = hist.prev

(* ------------------------------------------------------------------ *)
(* C13                                                                 *)
(* ------------------------------------------------------------------ *)

\* the index h is set, resolves to a device, and that device is an L3 master
\* or an L3 slave with an upper master
HasMaster(h) ==
    /\ h \in Devs
    /\ dev[h].l3_master \/ (dev[h].l3_slave /\ dev[h].upper # NULL)

\* the index of that master
MasterIndex(h) == IF dev[h].l3_master THEN h ELSE dev[h].upper

\* C13: when the output interface of the flow handed to l3mdev_update_flow has
\* a master, the call replaces the output interface with the master's index,
\* sets FLOWI_FLAG_SKIP_NH_OIF and keeps every other flag, and leaves the
\* input interface as it was, whether or not the input interface has a master;
\* the input interface changes only when the output interface is unset,
\* resolves to no device, or has no master.
C13_OutputFirst ==
    hist.nupd >= 1 =>
        /\ HasMaster(hist.prev.flowi_oif) =>
              /\ fl.flowi_oif = MasterIndex(hist.prev.flowi_oif)
              /\ fl.flowi_flags = hist.prev.flowi_flags \cup {FLOWI_FLAG_SKIP_NH_OIF}
              /\ fl.flowi_iif = hist.prev.flowi_iif
        /\ fl.flowi_iif # hist.prev.flowi_iif =>
              /\ ~HasMaster(hist.prev.flowi_oif)
              /\ fl.flowi_oif = hist.prev.flowi_oif

\* one call has been made on a flow whose output interface was an L3 slave and
\* whose input interface had a master other than itself: the output interface
\* is the master, the flag is set, the input interface is as it was
C13_Witness ==
    /\ hist.nupd = 1
    /\ hist.orig.flowi_oif \in Devs /\ dev[hist.orig.flowi_oif].l3_slave
    /\ HasMaster(hist.orig.flowi_oif)
    /\ HasMaster(hist.orig.flowi_iif)
    /\ MasterIndex(hist.orig.flowi_iif) # hist.orig.flowi_iif
    /\ fl.flowi_oif = dev[hist.orig.flowi_oif].upper
    /\ fl.flowi_oif # hist.orig.flowi_oif
    /\ FLOWI_FLAG_SKIP_NH_OIF \in fl.flowi_flags
    /\ fl.flowi_iif = hist.orig.flowi_iif

(* ------------------------------------------------------------------ *)
(* C15                                                                 *)
(* ------------------------------------------------------------------ *)

\* the index h denotes an L3 master whose l3mdev_fib_table accessor is set
MasterWithTable(h) == h \in Devs /\ dev[h].l3_master /\ dev[h].fib_table

\* C15: l3mdev_fib_rule_match returns 1 with arg->table set to the table of
\* the output interface whenever that interface is an L3 master with an
\* l3mdev_fib_table accessor, whatever the input interface; it uses the table
\* of the input interface only when the output interface is no such master;
\* when neither is, it returns 0 and arg->table is as the caller left it.
C15_RuleMatch ==
    hist.rm.done =>
        LET f == hist.rm.fl
        IN  /\ MasterWithTable(f.flowi_oif) =>
                  /\ hist.rm.rc = 1
                  /\ hist.rm.table = l3mdev_fib_table(f.flowi_oif)
            /\ (~MasterWithTable(f.flowi_oif) /\ MasterWithTable(f.flowi_iif)) =>
                  /\ hist.rm.rc = 1
                  /\ hist.rm.table = l3mdev_fib_table(f.flowi_iif)
            /\ (~MasterWithTable(f.flowi_oif) /\ ~MasterWithTable(f.flowi_iif)) =>
                  /\ hist.rm.rc = 0
                  /\ hist.rm.table = ArgTable

\* the call has matched a flow whose two interfaces are different L3 masters
\* with tables, and arg->table is the table of the output interface
C15_Witness ==
    /\ hist.rm.done
    /\ MasterWithTable(hist.rm.fl.flowi_oif)
    /\ MasterWithTable(hist.rm.fl.flowi_iif)
    /\ hist.rm.fl.flowi_oif # hist.rm.fl.flowi_iif
    /\ hist.rm.rc = 1
    /\ hist.rm.table = l3mdev_fib_table(hist.rm.fl.flowi_oif)
    /\ hist.rm.table # l3mdev_fib_table(hist.rm.fl.flowi_iif)

(* ------------------------------------------------------------------ *)
(* C19                                                                 *)
(* ------------------------------------------------------------------ *)

\* the index h resolves to a device governed by an L3 master with a table: the
\* device is that master, or an L3 slave whose upper master it is
GovernedWithTable(h) ==
    /\ h \in Devs
    /\ \/ MasterWithTable(h)
       \/ /\ ~dev[h].l3_master /\ dev[h].l3_slave /\ dev[h].upper # NULL
          /\ MasterWithTable(dev[h].upper)

\* C19: for every flow whose output interface is governed by an L3 master with
\* a table, l3mdev_fib_rule_match called after l3mdev_update_flow returns 1 and
\* sets arg->table to what l3mdev_fib_table_by_index returns for the output
\* interface the flow had before the update.
C19_RewriteThenMatch ==
    (hist.rm.done /\ hist.rm.nupd >= 1 /\ GovernedWithTable(hist.orig.flowi_oif)) =>
        /\ hist.rm.rc = 1
        /\ l3mdev_fib_table_by_index(1, hist.orig.flowi_oif) = {hist.rm.table}

\* a flow whose output interface was an L3 slave was updated once and then
\* matched: arg->table is the table of the slave's master, which is what
\* l3mdev_fib_table_by_index returns for the slave
C19_Witness ==
    /\ hist.rm.done /\ hist.rm.nupd = 1
    /\ hist.orig.flowi_oif \in Devs /\ dev[hist.orig.flowi_oif].l3_slave
    /\ GovernedWithTable(hist.orig.flowi_oif)
    /\ hist.rm.fl.flowi_oif = dev[hist.orig.flowi_oif].upper
    /\ hist.rm.rc = 1
    /\ hist.rm.table = l3mdev_fib_table(dev[hist.orig.flowi_oif].upper)
    /\ l3mdev_fib_table_by_index(1, hist.orig.flowi_oif) = {hist.rm.table}

====
